---- MODULE Spec2Model ----
(***************************************************************************)
(* A model of NaiveBayesClassifier (src/bayesclassifier.py): the frequency *)
(* store, the probability estimators, classify, train, remove_word and     *)
(* cleanup.                                                                *)
(*                                                                         *)
(* Numbers.  Python's "/" on two ints is true division.  Every quotient    *)
(* the class computes is modelled as the exact rational <<n, d>> in lowest *)
(* terms (d > 0); comparisons are exact.  (Run on a stub tokenizer, the     *)
(* Python class returns the same category as the exact computation for     *)
(* every model of up to four documents over these words.)  An exception    *)
(* leaving a method is a value too: a result is a record whose field exc   *)
(* is "" for a normal return and the exception's name otherwise.           *)
(*                                                                         *)
(* Text.  nltk.word_tokenize is outside the repository: a raw text is      *)
(* modelled as the sequence of words it splits into.  The tokenizer can    *)
(* raise (a text that is no string, such as None, makes word_tokenize      *)
(* raise TypeError): NotAString is such an input.                          *)
(*                                                                         *)
(* An optional category argument is <<>> for None and <<c>> for c.         *)
(***************************************************************************)
EXTENDS Integers, Sequences, FiniteSets, TLC

\* Bounds of the model.
MaxDocs == 2
MaxLen == 2

\* Words a raw text is made of; nltk's English stopword list contains "the".
Words == {"a", "b", "the"}
stopwords == {"the"}
Tokens == Words \ stopwords

\* Category lists the classifier is constructed with.  "" is a category
\* identifier that is falsy in Python.
CategoryLists == {<<"spam", "ham">>, <<"", "spam", "ham">>}
\* A label that is in none of the lists.
Unconfigured == "other"

Texts == UNION {[1..k -> Words] : k \in 0..MaxLen}
\* An argument nltk.word_tokenize raises on.
NotAString == <<"None">>
TextArguments == Texts \cup {NotAString}
\* The values passed as threshold to cleanup (0.2 is the default).
Thresholds == {<<1, 5>>, <<1, 2>>, <<1, 1>>}

VARIABLES categories, word_memo, document_count, total_document_count, last

vars == <<categories, word_memo, document_count, total_document_count, last>>

--------------------------------------------------------------------------
\* Exact rationals and results.

RECURSIVE GCD(_, _)
GCD(a, b) == IF b = 0 THEN a ELSE GCD(b, a % b)

Norm(n, d) == IF n = 0 THEN <<0, 1>> ELSE LET g == GCD(n, d) IN <<n \div g, d \div g>>
Zero == <<0, 1>>
One == <<1, 1>>
qmul(x, y) == Norm(x[1] * y[1], x[2] * y[2])
qdiv(x, y) == Norm(x[1] * y[2], x[2] * y[1])
qgt(x, y) == x[1] * y[2] > y[1] * x[2]
qge(x, y) == x[1] * y[2] >= y[1] * x[2]

Ok(q) == [exc |-> "", val |-> q]
Raise(e) == [exc |-> e, val |-> Zero]
\* a / b on Python ints
truediv(a, b) == IF b = 0 THEN Raise("ZeroDivisionError") ELSE Ok(Norm(a, b))

Cats == {categories[i] : i \in 1..Len(categories)}
Truthy(category) == category # <<>> /\ category[1] # ""

RECURSIVE sum_document_count(_)
\* sum(self.document_count[cat] for cat in self.categories), from position i on
sum_document_count(i) ==
    IF i > Len(categories) THEN 0
    ELSE document_count[categories[i]] + sum_document_count(i + 1)

--------------------------------------------------------------------------
\* The frequency store.

Empty == [w \in {} |-> 0]

init_word_memo(cats) == [c \in {cats[i] : i \in 1..Len(cats)} |-> Empty]
init_document_count(cats) == [c \in {cats[i] : i \in 1..Len(cats)} |-> 0]

word_count(wm, word, category) ==
    IF word \notin DOMAIN wm[category] THEN 0 ELSE wm[category][word]

add_word(wm, word, category) ==
    IF word \notin DOMAIN wm[category]
    THEN [wm EXCEPT ![category] = [w \in DOMAIN @ \cup {word} |-> IF w = word THEN 1 ELSE @[w]]]
    ELSE [wm EXCEPT ![category][word] = @ + 1]

\* dict.pop(word, None)
pop(d, word) == [w \in DOMAIN d \ {word} |-> d[w]]

\* variant: the loop of lines 124-125 stops after the first category
remove_word_first_category_only(wm, word, category) ==
    IF Truthy(category)
    THEN IF category[1] \in DOMAIN wm
         THEN [exc |-> "", word_memo |-> [wm EXCEPT ![category[1]] = pop(@, word)]]
         ELSE [exc |-> "KeyError", word_memo |-> wm]
    ELSE [exc |-> "", word_memo |-> [wm EXCEPT ![categories[1]] = pop(@, word)]]
remove_word(wm, word, category) ==
    IF Truthy(category)
    THEN IF category[1] \in DOMAIN wm
         THEN [exc |-> "", word_memo |-> [wm EXCEPT ![category[1]] = pop(@, word)]]
         ELSE [exc |-> "KeyError", word_memo |-> wm]
    ELSE [exc |-> "", word_memo |-> [c \in DOMAIN wm |-> pop(wm[c], word)]]

--------------------------------------------------------------------------
\* The tokenizer.

RECURSIVE Dedup(_)
\* list(set(words)): each word once
Dedup(s) ==
    IF s = <<>> THEN <<>>
    ELSE LET front == Dedup(SubSeq(s, 1, Len(s) - 1))
             x == s[Len(s)]
         IN IF \E i \in 1..Len(front) : front[i] = x THEN front ELSE Append(front, x)

NotStopword(w) == w \notin stopwords

\* "" when tokenize returns, else the exception it raises
tokenize_exc(text) == IF text = NotAString THEN "TypeError" ELSE ""

\* variant: line 135 without set()
tokenize_keep_duplicates(text) == SelectSeq(text, NotStopword)
tokenize(text) == Dedup(SelectSeq(text, NotStopword))

\* whether some token occurs more than once in the raw text
Repeats(text) == Len(tokenize(text)) < Len(SelectSeq(text, NotStopword))

\* the bags of words tokenize makes of the texts
BagsOfWords == {tokenize(text) : text \in Texts}

--------------------------------------------------------------------------
\* The probability engine.  document_count, total_document_count and
\* categories are read from the object; the word memo is a parameter because
\* cleanup evaluates word_probability while it is removing words.

\* variant: line 66 guarded as line 72 guards word_probability_category
category_probability_guarded(category) ==
    IF sum_document_count(1) = 0 THEN Ok(Zero)
    ELSE truediv(document_count[category], sum_document_count(1))
category_probability(category) ==
    truediv(document_count[category], sum_document_count(1))

\* variant: line 73 dividing by the total
word_probability_category_of_total(wm, word, category) ==
    IF document_count[category] > 0
    THEN truediv(word_count(wm, word, category), total_document_count)
    ELSE Ok(Zero)
word_probability_category(wm, word, category) ==
    IF document_count[category] > 0
    THEN truediv(word_count(wm, word, category), document_count[category])
    ELSE Ok(Zero)

RECURSIVE sum_word_count(_, _, _)
\* sum(self.word_count(word, cat) for cat in self.categories), from position i on
sum_word_count(wm, word, i) ==
    IF i > Len(categories) THEN 0
    ELSE word_count(wm, word, categories[i]) + sum_word_count(wm, word, i + 1)

word_probability(wm, word) == truediv(sum_word_count(wm, word, 1), total_document_count)

RECURSIVE likelihood_loop(_, _, _, _, _)
\* the for loop of text_likelihood, from position i of the bag on
likelihood_loop(wm, bag_of_words, category, i, score) ==
    IF i > Len(bag_of_words) THEN Ok(score)
    ELSE LET word_prob == word_probability(wm, bag_of_words[i])
             word_cat_probability == word_probability_category(wm, bag_of_words[i], category)
         IN IF word_prob.exc # "" THEN word_prob
            ELSE IF word_cat_probability.exc # "" THEN word_cat_probability
            ELSE likelihood_loop(wm, bag_of_words, category, i + 1,
                    IF qgt(word_prob.val, Zero) /\ qgt(word_cat_probability.val, Zero)
                    THEN qmul(score, qdiv(word_cat_probability.val, word_prob.val))
                    ELSE score)

text_likelihood(wm, bag_of_words, category) ==
    LET product == likelihood_loop(wm, bag_of_words, category, 1, One)
        prior == category_probability(category)
    IN IF product.exc # "" THEN product
       ELSE IF prior.exc # "" THEN prior
       ELSE Ok(qmul(product.val, prior.val))

--------------------------------------------------------------------------
\* classify

\* variant: line 56 with >=
exceeds_or_ties(likelihood, max_likelihood) == qge(likelihood, max_likelihood)
\* likelihood > max_likelihood
exceeds(likelihood, max_likelihood) == qgt(likelihood, max_likelihood)

RECURSIVE classify_loop(_, _, _, _, _)
\* the for loop of classify, from position i of the category list on
classify_loop(wm, bag_of_words, i, max_likelihood, max_category) ==
    IF i > Len(categories)
    THEN [exc |-> "", category |-> max_category, score |-> max_likelihood]
    ELSE LET likelihood == text_likelihood(wm, bag_of_words, categories[i])
         IN IF likelihood.exc # ""
            THEN [exc |-> likelihood.exc, category |-> "", score |-> Zero]
            ELSE IF exceeds(likelihood.val, max_likelihood)
                 THEN classify_loop(wm, bag_of_words, i + 1, likelihood.val, categories[i])
                 ELSE classify_loop(wm, bag_of_words, i + 1, max_likelihood, max_category)

\* classify once the text is tokenized
classify_bag(wm, bag_of_words) == classify_loop(wm, bag_of_words, 1, Zero, categories[1])

\* classify when tokenize raises
classify_raise(e) == [exc |-> e, category |-> "", score |-> Zero]

--------------------------------------------------------------------------
\* train

RECURSIVE add_words(_, _, _, _)
\* the for loop of train, from position i of the bag on
add_words(wm, bag_of_words, category, i) ==
    IF i > Len(bag_of_words) THEN wm
    ELSE add_words(add_word(wm, bag_of_words[i], category), bag_of_words, category, i + 1)

\* variant: line 103 before line 102
train_total_first(text, category) ==
    IF category \notin DOMAIN document_count
    THEN [exc |-> "KeyError", word_memo |-> word_memo, document_count |-> document_count,
          total_document_count |-> total_document_count + 1]
    ELSE [exc |-> tokenize_exc(text),
          word_memo |-> IF tokenize_exc(text) # "" THEN word_memo
                        ELSE add_words(word_memo, tokenize(text), category, 1),
          document_count |-> [document_count EXCEPT ![category] = @ + 1],
          total_document_count |-> total_document_count + 1]
\* variant: line 103 missing
train_without_total(text, category) ==
    IF category \notin DOMAIN document_count
    THEN [exc |-> "KeyError", word_memo |-> word_memo, document_count |-> document_count,
          total_document_count |-> total_document_count]
    ELSE [exc |-> tokenize_exc(text),
          word_memo |-> IF tokenize_exc(text) # "" THEN word_memo
                        ELSE add_words(word_memo, tokenize(text), category, 1),
          document_count |-> [document_count EXCEPT ![category] = @ + 1],
          total_document_count |-> total_document_count]
train(text, category) ==
    IF category \notin DOMAIN document_count
    THEN \* line 102 raises before anything is assigned
         [exc |-> "KeyError", word_memo |-> word_memo, document_count |-> document_count,
          total_document_count |-> total_document_count]
    ELSE \* lines 102-103 have run when tokenize (line 104) returns or raises
         [exc |-> tokenize_exc(text),
          word_memo |-> IF tokenize_exc(text) # "" THEN word_memo
                        ELSE add_words(word_memo, tokenize(text), category, 1),
          document_count |-> [document_count EXCEPT ![category] = @ + 1],
          total_document_count |-> total_document_count + 1]

--------------------------------------------------------------------------
\* cleanup

\* variant: line 147 with >
exceeds_threshold(word_prob, threshold) == qgt(word_prob, threshold)
\* self.word_probability(word) >= threshold
meets_threshold(word_prob, threshold) == qge(word_prob, threshold)

to_remove(wm, cat, threshold) ==
    {word \in DOMAIN wm[cat] : meets_threshold(word_probability(wm, word).val, threshold)}

RECURSIVE remove_each(_, _)
\* for word in to_remove: self.remove_word(word)
remove_each(wm, marked) ==
    IF marked = {} THEN wm
    ELSE LET word == CHOOSE w \in marked : TRUE
         IN remove_each(remove_word(wm, word, <<>>).word_memo, marked \ {word})

RECURSIVE cleanup_loop(_, _, _, _)
\* the outer for loop of cleanup, from position i of the category list on
cleanup_loop(wm, threshold, i, removed_count) ==
    IF i > Len(categories)
    THEN [exc |-> "", word_memo |-> wm, removed_count |-> removed_count]
    ELSE IF DOMAIN wm[categories[i]] # {} /\ total_document_count = 0
         THEN [exc |-> "ZeroDivisionError", word_memo |-> wm, removed_count |-> removed_count]
         ELSE cleanup_loop(remove_each(wm, to_remove(wm, categories[i], threshold)),
                           threshold, i + 1,
                           removed_count + Cardinality(to_remove(wm, categories[i], threshold)))

cleanup(threshold) == cleanup_loop(word_memo, threshold, 1, 0)

--------------------------------------------------------------------------
\* The state machine: one action per public method.  last records the most
\* recent call, its arguments and what it returned, raised or printed.  Of a
\* text it keeps the bag of words tokenize made of it (<<>> when tokenize
\* raised, which tok_exc tells) and whether a token was repeated in it.  last.fresh tells whether
\* no removal (remove_word, cleanup) had been called before that call.

NoCall ==
    [op |-> "init", bag |-> <<>>, repeats |-> FALSE, category |-> <<>>, word |-> "",
     threshold |-> Zero, tok_exc |-> "", exc |-> "", ret_category |-> "", ret_score |-> Zero,
     removed_count |-> 0, fresh |-> TRUE]

Fresh == last.fresh /\ last.op \notin {"remove_word", "cleanup"}

Init ==
    /\ categories \in CategoryLists
    /\ word_memo = init_word_memo(categories)
    /\ document_count = init_document_count(categories)
    /\ total_document_count = 0
    /\ last = NoCall

Train ==
    \E text \in TextArguments, category \in Cats \cup {Unconfigured} :
        LET r == train(text, category)
        IN /\ category \in Cats => total_document_count < MaxDocs
           /\ word_memo' = r.word_memo
           /\ document_count' = r.document_count
           /\ total_document_count' = r.total_document_count
           /\ last' = [NoCall EXCEPT !.op = "train",
                                     !.bag = IF tokenize_exc(text) = "" THEN tokenize(text) ELSE <<>>,
                                     !.repeats = Repeats(text), !.category = <<category>>,
                                     !.tok_exc = IF category \in Cats THEN tokenize_exc(text) ELSE "",
                                     !.exc = r.exc, !.fresh = Fresh]
           /\ UNCHANGED categories

\* classify reads its text through tokenize only: the action draws what
\* tokenize does with the text, a bag of words or an exception.
Classify ==
    \E bag \in BagsOfWords \cup {<<"TypeError">>} :
        LET r == IF bag \in BagsOfWords THEN classify_bag(word_memo, bag)
                 ELSE classify_raise(bag[1])
        IN /\ last' = [NoCall EXCEPT !.op = "classify",
                                     !.bag = IF bag \in BagsOfWords THEN bag ELSE <<>>,
                                     !.tok_exc = IF bag \in BagsOfWords THEN "" ELSE bag[1],
                                     !.exc = r.exc, !.ret_category = r.category,
                                     !.ret_score = r.score, !.fresh = Fresh]
           /\ UNCHANGED <<categories, word_memo, document_count, total_document_count>>

RemoveWord ==
    \E word \in Tokens, category \in {<<>>} \cup {<<c>> : c \in Cats \cup {Unconfigured}} :
        LET r == remove_word(word_memo, word, category)
        IN /\ word_memo' = r.word_memo
           /\ last' = [NoCall EXCEPT !.op = "remove_word", !.word = word, !.category = category,
                                     !.exc = r.exc, !.fresh = Fresh]
           /\ UNCHANGED <<categories, document_count, total_document_count>>

Cleanup ==
    \E threshold \in Thresholds :
        LET r == cleanup(threshold)
        IN /\ word_memo' = r.word_memo
           /\ last' = [NoCall EXCEPT !.op = "cleanup", !.threshold = threshold, !.exc = r.exc,
                                     !.removed_count = r.removed_count, !.fresh = Fresh]
           /\ UNCHANGED <<categories, document_count, total_document_count>>

Next == Train \/ Classify \/ RemoveWord \/ Cleanup

Spec == Init /\ [][Next]_vars

--------------------------------------------------------------------------
\* Properties.

Returned == last.op = "classify" /\ last.exc = ""
Positions == 1..Len(categories)
\* the score classify computed for the i-th category in its last call
ScoreAt(i) == text_likelihood(word_memo, last.bag, categories[i]).val
Greatest == {i \in Positions : \A j \in Positions : qge(ScoreAt(i), ScoreAt(j))}
TwoCategoriesTrained == Cardinality({c \in Cats : document_count[c] > 0}) >= 2
Vocabulary(wm) == UNION {DOMAIN wm[c] : c \in Cats}

\* C1 as stated: on a trained model classify returns the one category with
\* the greatest score, and the first category of the list whenever two or
\* more categories tie for the greatest score or every score is zero.
C1_TiesGoToFirstCategory ==
    (Returned /\ total_document_count > 0) =>
        /\ Cardinality(Greatest) = 1 =>
               last.ret_category = categories[CHOOSE i \in Greatest : TRUE]
        /\ (Cardinality(Greatest) > 1 \/ \A i \in Positions : ScoreAt(i) = Zero) =>
               last.ret_category = categories[1]

\* C1 amended: on a trained model classify returns the category that comes
\* first in the category list among those with the greatest score, and that
\* score: every earlier category scores strictly less, no category more.
C1_FirstGreatestWins ==
    (Returned /\ total_document_count > 0) =>
        \E i \in Positions :
            /\ last.ret_category = categories[i]
            /\ last.ret_score = ScoreAt(i)
            /\ \A j \in Positions : qge(ScoreAt(i), ScoreAt(j))
            /\ \A j \in 1..(i - 1) : qgt(ScoreAt(i), ScoreAt(j))

C1_TieBehindFirstCategory ==
    /\ Returned
    /\ total_document_count > 0
    /\ Cardinality(Greatest) > 1
    /\ 1 \notin Greatest
    /\ last.ret_category = categories[2]

\* C2: with total_document_count = 0, a classify whose text tokenizes (to an
\* empty or a non-empty bag) ends in ZeroDivisionError; it returns nothing.
C2_UntrainedClassifyRaises ==
    (last.op = "classify" /\ last.tok_exc = "" /\ total_document_count = 0) =>
        last.exc = "ZeroDivisionError"

C2_UntrainedClassifyOfTokens ==
    /\ last.op = "classify"
    /\ last.tok_exc = ""
    /\ total_document_count = 0
    /\ last.bag # <<>>
    /\ last.exc = "ZeroDivisionError"

\* C3: a train call whose category is not configured raises KeyError and
\* leaves every document count, the total and every word count as they were.
C3_UnconfiguredTrainChangesNothing ==
    [][(last'.op = "train" /\ last'.category[1] \notin Cats) =>
           /\ last'.exc = "KeyError"
           /\ word_memo' = word_memo
           /\ document_count' = document_count
           /\ total_document_count' = total_document_count]_vars

C3_UnconfiguredTrainOnTrainedModel ==
    /\ last.op = "train"
    /\ last.category[1] \notin Cats
    /\ last.exc = "KeyError"
    /\ total_document_count > 0
    /\ Vocabulary(word_memo) # {}

\* C4: in every reachable state total_document_count is the sum of
\* document_count over the configured categories, the two denominators of
\* word_probability and category_probability.
C4_TotalIsSumOfDocumentCounts == total_document_count = sum_document_count(1)

C4_TwoDocumentsThenPruned ==
    /\ total_document_count = 2
    /\ document_count["spam"] = 1
    /\ document_count["ham"] = 1
    /\ last.op = "cleanup"
    /\ last.removed_count > 0

\* C5: in every reachable state no token's count in a category exceeds the
\* number of documents trained into that category.
C5_WordCountAtMostDocumentCount ==
    \A c \in Cats : \A t \in DOMAIN word_memo[c] :
        word_count(word_memo, t, c) <= document_count[c]

C5_RepeatedTokenCountedOnce ==
    /\ last.op = "train"
    /\ last.exc = ""
    /\ last.repeats
    /\ \E t \in Tokens :
           /\ \E i \in 1..Len(last.bag) : last.bag[i] = t
           /\ document_count[last.category[1]] = 2
           /\ word_count(word_memo, t, last.category[1]) = 2

\* C6 as stated: cleanup(1.0) on a model that has only been trained, with
\* documents in at least two categories, removes 0 tokens and changes no
\* word count.
C6_CleanupAtOneRemovesNothing ==
    [][(last'.op = "cleanup" /\ last'.threshold = One /\ last'.fresh /\ TwoCategoriesTrained) =>
           /\ last'.removed_count = 0
           /\ word_memo' = word_memo]_vars

\* C6 amended: cleanup(1.0) on such a model removes exactly the tokens whose
\* count summed over the categories equals total_document_count (marginal
\* probability exactly 1.0), reports their number, and changes no other word
\* count; it removes 0 tokens when there is no such token.
C6_CleanupAtOneRemovesUbiquitousTokens ==
    [][(last'.op = "cleanup" /\ last'.threshold = One /\ last'.fresh /\ TwoCategoriesTrained) =>
           LET ubiquitous == {t \in Tokens :
                                 sum_word_count(word_memo, t, 1) = total_document_count}
           IN /\ last'.removed_count = Cardinality(ubiquitous)
              /\ \A c \in Cats : \A t \in Tokens :
                     word_count(word_memo', t, c) =
                         IF t \in ubiquitous THEN 0 ELSE word_count(word_memo, t, c)]_vars

C6_UbiquitousTokenRemoved ==
    /\ last.op = "cleanup"
    /\ last.threshold = One
    /\ last.fresh
    /\ TwoCategoriesTrained
    /\ last.removed_count >= 1
    /\ Vocabulary(word_memo) # {}

\* C7: the count cleanup(threshold) reports is the number of distinct stored
\* tokens whose marginal probability at the start of the call is >= threshold;
\* each is removed from every category, the others keep their counts.
C7_CleanupCountsEachHotTokenOnce ==
    [][(last'.op = "cleanup" /\ last'.exc = "") =>
           LET hot == {t \in Vocabulary(word_memo) :
                          qge(word_probability(word_memo, t).val, last'.threshold)}
           IN /\ last'.removed_count = Cardinality(hot)
              /\ \A c \in Cats : DOMAIN word_memo'[c] = DOMAIN word_memo[c] \ hot
              /\ \A c \in Cats : \A t \in Tokens \ hot :
                     word_count(word_memo', t, c) = word_count(word_memo, t, c)]_vars

\* one document in each of two categories and one token of probability 1.0:
\* the token was in both categories' mappings and is counted once
C7_TokenOfTwoCategoriesCountedOnce ==
    /\ last.op = "cleanup"
    /\ last.threshold = One
    /\ last.removed_count = 1
    /\ total_document_count = 2
    /\ document_count["spam"] = 1
    /\ document_count["ham"] = 1
    /\ Vocabulary(word_memo) # {}

\* the token has the same positive ratio word_count / document_count in every
\* category that has a document
EqualRatio(t) ==
    /\ \A c \in Cats : document_count[c] > 0 => word_count(word_memo, t, c) > 0
    /\ \A c1, c2 \in Cats :
           (document_count[c1] > 0 /\ document_count[c2] > 0) =>
               word_count(word_memo, t, c1) * document_count[c2]
                   = word_count(word_memo, t, c2) * document_count[c1]

\* C8: on a trained model, removing from all categories a token whose ratio
\* word_count / document_count is the same positive number in every category
\* with a document changes neither the category nor the score classify
\* returns, for every bag of words.
C8_EqualRatioTokenIsNeutral ==
    total_document_count > 0 =>
        \A t \in Tokens :
            EqualRatio(t) =>
                \A bag \in BagsOfWords :
                    classify_bag(word_memo, bag)
                        = classify_bag(remove_word(word_memo, t, <<>>).word_memo, bag)

C8_EqualRatioTokenBesideAnother ==
    /\ TwoCategoriesTrained
    /\ \E t, u \in Tokens :
           /\ EqualRatio(t)
           /\ u \in Vocabulary(word_memo)
           /\ ~EqualRatio(u)
           /\ classify_bag(word_memo, <<t, u>>).exc = ""
           /\ classify_bag(word_memo, <<t, u>>).category # categories[1]

\* C9 as stated: remove_word(token, category) with a configured category
\* deletes the token's entry in that category and changes nothing else.
C9_RemoveWordTouchesOnlyItsCategory ==
    [][(last'.op = "remove_word" /\ last'.category # <<>> /\ last'.category[1] \in Cats) =>
           \A c \in Cats : \A t \in Tokens :
               word_count(word_memo', t, c) =
                   IF c = last'.category[1] /\ t = last'.word THEN 0
                   ELSE word_count(word_memo, t, c)]_vars

\* C10 as stated: a train call that raises leaves document_count,
\* total_document_count and all word counts as they were.
C10_FailedTrainChangesNothing ==
    [][(last'.op = "train" /\ last'.exc # "") =>
           /\ word_memo' = word_memo
           /\ document_count' = document_count
           /\ total_document_count' = total_document_count]_vars

====
